---- MODULE Spec2Model ----
(***************************************************************************)
(* A model of the notes manager: the View state machine (view.rs), the     *)
(* note variants (note.rs, short.rs, long.rs) and the program entry        *)
(* (main.rs).  The recursion of View::render is modelled by a stack of     *)
(* View frames: stack[1] is the root view, the last frame is the view      *)
(* whose prompt is outstanding.  Every prompt of the Prompt Gateway        *)
(* answers with a value, with one of the two cancellation signals or with  *)
(* a genuine failure; a handler is given the answers of all the prompts    *)
(* it may ask (a script) and asks them in the order of the code.           *)
(***************************************************************************)
EXTENDS Integers, Sequences, FiniteSets, TLC

VARIABLES pc, stack, file, ret, last, lastSave, input

vars == <<pc, stack, file, ret, last, lastSave, input>>

(***************************************************************************)
(* Bounds of the model.                                                    *)
(***************************************************************************)
\* number of distinct titles (and view names) the user can type
MaxTitle == 1
\* dates the date picker offers are 1..MaxDate
MaxDate == 1
\* the date the clock shows during the run
Today == 1
\* description texts have length 0..MaxDescLen
MaxDescLen == 1
\* the "Choose new state" prompt is answered with one of the first
\* MaxStateChoice note states
MaxStateChoice == 1
\* notes in the whole tree (sub-views in progress included)
MaxNotes == 2
\* nesting depth of views (1 = only the root view)
MaxDepth == 3

(***************************************************************************)
(* Option<T>: None is the empty sequence, Some(v) a one-element sequence.  *)
(***************************************************************************)
None == <<>>

Some(v) == <<v>>

IsSome(o) == Len(o) > 0

Unwrap(o) == o[1]

(***************************************************************************)
(* Answers of the Prompt Gateway.                                          *)
(***************************************************************************)
Ok(v) == <<"Ok", v>>

OperationCanceled == <<"Canceled">>

OperationInterrupted == <<"Interrupted">>

\* any other InquireError (IO, NotTTY, InvalidConfiguration, ...)
PromptFailed == <<"Failed">>

\* the prompt is not reached by the handler
NotAsked == <<"NotAsked">>

PromptErrors == {OperationCanceled, OperationInterrupted, PromptFailed}

IsOk(a) == a[1] = "Ok"

Val(a) == a[2]

Answers(values) == {Ok(v) : v \in values} \cup PromptErrors \cup {NotAsked}

Titles == 1..MaxTitle

Dates == 1..MaxDate

DescTexts == {[i \in 1..n |-> 1] : n \in 0..MaxDescLen}

\* note.rs: enum NoteState, in the order of the "Choose new state" list
NoteStates == <<"Pending", "Started", "Finished", "Deprioritised">>

StateChoices == {NoteStates[i] : i \in 1..MaxStateChoice}

\* note.rs: enum NoteType
NoteTypes == {"Short", "Long"}

(***************************************************************************)
(* Results of the fallible functions: Result<T, anyhow::Error>.  The       *)
(* error keeps the answer that caused it, so that downcast_ref finds it.   *)
(***************************************************************************)
ROk(v) == <<"Ok", v>>

RErr(e) == <<"Err", e>>

\* the result of a handler together with the prompts it asked
Res(r, asked) == [r |-> r, asked |-> asked]

\* a save (fs::write) that failed: an error that is no InquireError
IoError == <<"Io">>

(***************************************************************************)
(* short.rs                                                                *)
(***************************************************************************)
new_no_deadline(title) ==
    [tag |-> "Short", title |-> title, created_at |-> Today,
     due_at |-> None, state |-> "Pending"]

new_with_deadline(title, due_at) ==
    [tag |-> "Short", title |-> title, created_at |-> Today,
     due_at |-> Some(due_at), state |-> "Pending"]

ShortNew(s) ==
    IF ~IsOk(s.title) THEN Res(RErr(s.title), {"title"})
    ELSE IF ~IsOk(s.with_due_at)
         THEN Res(RErr(s.with_due_at), {"title", "with_due_at"})
    ELSE IF Val(s.with_due_at)
         THEN IF ~IsOk(s.due_at)
              THEN Res(RErr(s.due_at), {"title", "with_due_at", "due_at"})
              ELSE Res(ROk(new_with_deadline(Val(s.title), Val(s.due_at))),
                       {"title", "with_due_at", "due_at"})
    ELSE Res(ROk(new_no_deadline(Val(s.title))), {"title", "with_due_at"})

(***************************************************************************)
(* long.rs                                                                 *)
(***************************************************************************)
maybe_add_description(s) ==
    IF ~IsOk(s.with_description)
    THEN Res(RErr(s.with_description), {"with_description"})
    ELSE IF Val(s.with_description)
         THEN IF ~IsOk(s.description)
              THEN Res(RErr(s.description), {"with_description", "description"})
              ELSE Res(ROk(Some(Val(s.description))),
                       {"with_description", "description"})
    ELSE Res(ROk(None), {"with_description"})

\* a due-date step that swallows the error of its prompts
maybe_add_due_at_swallow(s) ==
    IF ~IsOk(s.with_due_at)
    THEN Res(ROk(None), {"with_due_at"})
    ELSE IF Val(s.with_due_at)
         THEN IF ~IsOk(s.due_at)
              THEN Res(ROk(None), {"with_due_at", "due_at"})
              ELSE Res(ROk(Some(Val(s.due_at))), {"with_due_at", "due_at"})
    ELSE Res(ROk(None), {"with_due_at"})

maybe_add_due_at(s) ==
    IF ~IsOk(s.with_due_at)
    THEN Res(RErr(s.with_due_at), {"with_due_at"})
    ELSE IF Val(s.with_due_at)
         THEN IF ~IsOk(s.due_at)
              THEN Res(RErr(s.due_at), {"with_due_at", "due_at"})
              ELSE Res(ROk(Some(Val(s.due_at))), {"with_due_at", "due_at"})
    ELSE Res(ROk(None), {"with_due_at"})

LongNew(s) ==
    IF ~IsOk(s.title) THEN Res(RErr(s.title), {"title"})
    ELSE LET d == maybe_add_description(s) IN
         IF d.r[1] = "Err" THEN Res(d.r, {"title"} \cup d.asked)
         ELSE LET due == maybe_add_due_at(s) IN
              IF due.r[1] = "Err"
              THEN Res(due.r, {"title"} \cup d.asked \cup due.asked)
              ELSE Res(ROk([tag |-> "Long", title |-> Val(s.title),
                            description |-> d.r[2], created_at |-> Today,
                            due_at |-> due.r[2], sub_notes |-> None,
                            state |-> "Pending"]),
                       {"title"} \cup d.asked \cup due.asked)

(***************************************************************************)
(* note.rs                                                                 *)
(***************************************************************************)
NoteNew(s) ==
    IF ~IsOk(s.note_type) THEN Res(RErr(s.note_type), {"note_type"})
    ELSE LET n == IF Val(s.note_type) = "Short" THEN ShortNew(s)
                  ELSE LongNew(s)
         IN  Res(n.r, {"note_type"} \cup n.asked)

\* short.rs/long.rs format_due_at: the date, red when it is in the past
format_due_at(due_at) == <<due_at, IF Today > due_at THEN "red" ELSE "normal">>

\* ShortNote::render and LongNote::render build the same label:
\* "<state>: <title>: <created_at>[ due: <due_at>]"
NoteRender(note) ==
    LET base_string == <<note.state, note.title, note.created_at>> IN
    IF IsSome(note.due_at)
    THEN base_string \o <<"due">> \o format_due_at(Unwrap(note.due_at))
    ELSE base_string

(***************************************************************************)
(* The update operations of a note.  An update is given the note and the   *)
(* script of answers; it returns the mutated note or the error.            *)
(***************************************************************************)
\* ShortNote::update_title and LongNote::update_title
update_title(note, s) ==
    IF ~IsOk(s.title) THEN Res(RErr(s.title), {"title"})
    ELSE Res(ROk([note EXCEPT !.title = Val(s.title)]), {"title"})

\* ShortNote::update_state and LongNote::update_state
update_state(note, s) ==
    IF ~IsOk(s.state) THEN Res(RErr(s.state), {"state"})
    ELSE Res(ROk([note EXCEPT !.state = Val(s.state)]), {"state"})

\* an update_due that takes a date picker that gave no date for "no due date"
update_due_clear(note, s) ==
    IF ~IsOk(s.with_due) THEN Res(RErr(s.with_due), {"with_due"})
    ELSE IF Val(s.with_due) /\ IsOk(s.due_at)
         THEN Res(ROk([note EXCEPT !.due_at = Some(Val(s.due_at))]),
                  {"with_due", "due_at"})
    ELSE Res(ROk([note EXCEPT !.due_at = None]),
             IF Val(s.with_due) THEN {"with_due", "due_at"} ELSE {"with_due"})

\* ShortNote::update_due and LongNote::update_due
update_due(note, s) ==
    IF ~IsOk(s.with_due) THEN Res(RErr(s.with_due), {"with_due"})
    ELSE IF Val(s.with_due)
         THEN IF ~IsOk(s.due_at)
              THEN Res(RErr(s.due_at), {"with_due", "due_at"})
              ELSE Res(ROk([note EXCEPT !.due_at = Some(Val(s.due_at))]),
                       {"with_due", "due_at"})
    ELSE Res(ROk([note EXCEPT !.due_at = None]), {"with_due"})

\* an update_description that stores the text as it was entered
update_description_as_entered(note, s) ==
    IF ~IsOk(s.description) THEN Res(RErr(s.description), {"description"})
    ELSE Res(ROk([note EXCEPT !.description = Some(Val(s.description))]),
             {"description"})

\* LongNote::update_description
update_description(note, s) ==
    IF ~IsOk(s.description) THEN Res(RErr(s.description), {"description"})
    ELSE LET new_description == Val(s.description) IN
         IF Len(new_description) = 0
         THEN Res(ROk([note EXCEPT !.description = None]), {"description"})
         ELSE Res(ROk([note EXCEPT !.description = Some(new_description)]),
                  {"description"})

\* LongNote::view_description: prints, asks nothing, changes nothing
view_description(note) == Res(ROk(note), {})

\* short.rs: enum UpdateChoice, in the order of the menu
ShortChoices == <<"Title", "Due", "State">>

\* long.rs: enum UpdateChoice, in the order of the menu
LongChoices ==
    <<"Title", "ViewDescription", "Description", "Due", "State", "SubNotes">>

ShortUpdate(note, s) ==
    IF ~IsOk(s.choice) THEN Res(RErr(s.choice), {"choice"})
    ELSE LET u == CASE Val(s.choice) = "Title" -> update_title(note, s)
                    [] Val(s.choice) = "Due" -> update_due(note, s)
                    [] Val(s.choice) = "State" -> update_state(note, s)
         IN  Res(u.r, {"choice"} \cup u.asked)

\* the call of update_sub_notes: the sub-view takes over the prompts
CallSubNotes == <<"Call", "update_sub_notes">>

LongUpdate(note, s) ==
    IF ~IsOk(s.choice) THEN Res(RErr(s.choice), {"choice"})
    ELSE LET u == CASE Val(s.choice) = "Title" -> update_title(note, s)
                    [] Val(s.choice) = "Due" -> update_due(note, s)
                    [] Val(s.choice) = "State" -> update_state(note, s)
                    [] Val(s.choice) = "Description" ->
                           update_description(note, s)
                    [] Val(s.choice) = "ViewDescription" ->
                           view_description(note)
                    [] Val(s.choice) = "SubNotes" -> Res(CallSubNotes, {})
         IN  Res(u.r, {"choice"} \cup u.asked)

\* Note::update
NoteUpdate(note, s) ==
    IF note.tag = "Short" THEN ShortUpdate(note, s) ELSE LongUpdate(note, s)

(***************************************************************************)
(* The scripts of the Prompt Gateway: one answer for every prompt the      *)
(* handler asks, none for a prompt it does not reach.                      *)
(***************************************************************************)
AddFields ==
    {"note_type", "title", "with_description", "description",
     "with_due_at", "due_at"}

AddAnswers ==
    [note_type : Answers(NoteTypes), title : Answers(Titles),
     with_description : Answers(BOOLEAN), description : Answers(DescTexts),
     with_due_at : Answers(BOOLEAN), due_at : Answers(Dates)]

UpdateFields ==
    {"choice", "title", "description", "with_due", "due_at", "state"}

UpdateAnswers(choices) ==
    [choice : Answers(choices), title : Answers(Titles),
     description : Answers(DescTexts), with_due : Answers(BOOLEAN),
     due_at : Answers(Dates), state : Answers(StateChoices)]

\* The scripts of a handler are the answers that answer exactly the prompts
\* the handler asks; each set is enumerated once.
AddAsked(s) == NoteNew(s).asked

AddScripts ==
    {s : s \in {t \in AddAnswers :
                  \A f \in AddFields :
                      (t[f] # NotAsked) <=> (f \in AddAsked(t))}}

ShortUpdateAsked(s) == ShortUpdate(new_no_deadline(1), s).asked

ShortUpdateScripts ==
    {s : s \in {t \in UpdateAnswers({ShortChoices[i] :
                                        i \in 1..Len(ShortChoices)}) :
                  \A f \in UpdateFields :
                      (t[f] # NotAsked) <=> (f \in ShortUpdateAsked(t))}}

LongUpdateAsked(s) ==
    LongUpdate([tag |-> "Long", title |-> 1, description |-> None,
                created_at |-> Today, due_at |-> None, sub_notes |-> None,
                state |-> "Pending"], s).asked

LongUpdateScripts ==
    {s : s \in {t \in UpdateAnswers({LongChoices[i] :
                                        i \in 1..Len(LongChoices)}) :
                  \A f \in UpdateFields :
                      (t[f] # NotAsked) <=> (f \in LongUpdateAsked(t))}}

UpdateScripts(note) ==
    IF note.tag = "Short" THEN ShortUpdateScripts ELSE LongUpdateScripts

\* the prompt of a script that was not answered with a value
\* ("" when every prompt asked was answered)
FailedAt(s, fields) ==
    IF \E f \in fields : s[f] \in PromptErrors
    THEN CHOOSE f \in fields : s[f] \in PromptErrors
    ELSE ""

\* how the user answered a script: "Ok" when every prompt got a value,
\* else the kind of the answer that was none
ScriptKind(s, fields) ==
    IF FailedAt(s, fields) = "" THEN "Ok" ELSE s[FailedAt(s, fields)][1]

(***************************************************************************)
(* serde_json: the persisted form of a View.  A JSON value is a tagged     *)
(* tuple; an enum is externally tagged (a unit variant is a string, a      *)
(* variant with a payload an object with one key), None is null.           *)
(***************************************************************************)
JNull == <<"null">>

JStr(x) == <<"str", x>>

JNum(n) == <<"num", n>>

JArr(seq) == <<"arr", seq>>

JObj(rec) == <<"obj", rec>>

DeStr(j) == j[2]

\* Option<String> and Option<NaiveDate>
SerOptStr(opt) == IF IsSome(opt) THEN JStr(Unwrap(opt)) ELSE JNull

\* a deserialisation that skips the optional fields
DeOptStrSkip(j) == None

DeOptStr(j) == IF j = JNull THEN None ELSE Some(DeStr(j))

RECURSIVE SerNote(_)
SerNotes(notes) == JArr([i \in 1..Len(notes) |-> SerNote(notes[i])])

SerNote(note) ==
    IF note.tag = "Short"
    THEN JObj([Short |->
             JObj([title |-> JStr(note.title),
                   created_at |-> JStr(note.created_at),
                   due_at |-> SerOptStr(note.due_at),
                   state |-> JStr(note.state)])])
    ELSE JObj([Long |->
             JObj([title |-> JStr(note.title),
                   description |-> SerOptStr(note.description),
                   created_at |-> JStr(note.created_at),
                   due_at |-> SerOptStr(note.due_at),
                   sub_notes |-> IF IsSome(note.sub_notes)
                                 THEN SerNotes(Unwrap(note.sub_notes))
                                 ELSE JNull,
                   state |-> JStr(note.state)])])

RECURSIVE DeNote(_)
DeNotes(j) == [i \in 1..Len(j[2]) |-> DeNote(j[2][i])]

DeNote(j) ==
    IF "Short" \in DOMAIN j[2]
    THEN LET obj == j[2].Short[2] IN
         [tag |-> "Short", title |-> DeStr(obj.title),
          created_at |-> DeStr(obj.created_at),
          due_at |-> DeOptStr(obj.due_at), state |-> DeStr(obj.state)]
    ELSE LET obj == j[2].Long[2] IN
         [tag |-> "Long", title |-> DeStr(obj.title),
          description |-> DeOptStr(obj.description),
          created_at |-> DeStr(obj.created_at),
          due_at |-> DeOptStr(obj.due_at),
          sub_notes |-> IF obj.sub_notes = JNull THEN None
                        ELSE Some(DeNotes(obj.sub_notes)),
          state |-> DeStr(obj.state)]

(***************************************************************************)
(* view.rs: ViewState.  Main is <<"Main">>, Update(index) is               *)
(* <<"Update", index>>, with index counted from 0 as in the source.        *)
(***************************************************************************)
Main == <<"Main">>

Update(index) == <<"Update", index>>

SerViewState(st) ==
    IF st[1] = "Update" THEN JObj([Update |-> JNum(st[2])]) ELSE JStr(st[1])

DeViewState(j) ==
    IF j[1] = "obj" THEN Update(j[2].Update[2]) ELSE <<j[2]>>

\* serde_json::to_vec(self)
Serialize(view) ==
    JObj([name |-> JStr(view.name), notes |-> SerNotes(view.notes),
          state |-> SerViewState(view.state)])

\* serde_json::from_slice
Deserialize(j) ==
    [name |-> DeStr(j[2].name), notes |-> DeNotes(j[2].notes),
     state |-> DeViewState(j[2].state)]

\* no file at VIEW_FILE_PATH
NoFile == <<"absent">>

\* View::load_from_file
load_from_file == Deserialize(file)

\* View::new_from_vec
new_from_vec(name, notes) == [name |-> name, notes |-> notes, state |-> Main]

\* a get_notes that hands out a fresh, empty collection
get_notes_fresh(view) == <<>>

\* View::get_notes
get_notes(view) == view.notes

(***************************************************************************)
(* The state.                                                              *)
(*   pc       where main is: "start", "render", "done", "panic"            *)
(*   stack    the Views whose render is running, the root view first       *)
(*   file     the content of VIEW_FILE_PATH, or NoFile                     *)
(*   ret      the value the render of the top view returned, or NoRet      *)
(*   last     the last handler that ran and how its prompts were answered  *)
(*   lastSave the depth of the view that wrote the file last, 0 if none    *)
(*   input    the answers the user gave to the prompts of the last Add or   *)
(*            Update screen, NoInput after every other step                 *)
(***************************************************************************)
NoRet == <<"NoRet">>

\* no prompt of an Add or Update screen was asked
NoInput == [f \in AddFields \cup UpdateFields |-> NotAsked]

Depth == Len(stack)

Top == stack[Depth]

Root == stack[1]

SetTop(view) == [stack EXCEPT ![Depth] = view]

\* a match that knows only one of the two cancellation signals
IsCancelOnlyCanceled(e) == e = OperationCanceled

IsCancel(e) == e \in {OperationCanceled, OperationInterrupted}

Event(op, kind, at, sel) == [op |-> op, kind |-> kind, at |-> at, sel |-> sel]

\* the kind of an answer or error: "Ok", "Canceled", "Interrupted", "Failed", "Io"
Kind(a) == a[1]

RECURSIVE TreeCount(_)
\* the number of notes in a collection, sub-notes included
TreeCount(notes) ==
    IF Len(notes) = 0 THEN 0
    ELSE 1 + (IF notes[1].tag = "Long" /\ IsSome(notes[1].sub_notes)
              THEN TreeCount(Unwrap(notes[1].sub_notes)) ELSE 0)
           + TreeCount(Tail(notes))

RECURSIVE EffCount(_)
\* the number of notes of the tree below the view at depth k, where the
\* collection of a sub-view in progress stands for the sub_notes it copies
EffCount(k) ==
    IF k = Depth THEN TreeCount(stack[k].notes)
    ELSE LET note == stack[k].notes[stack[k].state[2] + 1] IN
         TreeCount(stack[k].notes)
           - (IF IsSome(note.sub_notes)
              THEN TreeCount(Unwrap(note.sub_notes)) ELSE 0)
           + EffCount(k + 1)

\* the persisted views a run can start from: written by an earlier run
SampleShort == new_no_deadline(1)

SampleLong ==
    [tag |-> "Long", title |-> 1, description |-> Some(<<1>>),
     created_at |-> Today, due_at |-> None,
     sub_notes |-> Some(<<SampleShort>>), state |-> "Pending"]

InitFiles ==
    {NoFile}
      \cup {Serialize([name |-> 1, notes |-> <<SampleLong>>, state |-> st]) :
                st \in {<<"Exit">>, Update(0)}}

Init ==
    /\ pc = "start"
    /\ stack = <<>>
    /\ file \in InitFiles
    /\ ret = NoRet
    /\ last = Event("none", "Ok", "", 0)
    /\ lastSave = 0
    /\ input = NoInput

(***************************************************************************)
(* view.rs                                                                 *)
(***************************************************************************)
\* a View::new that takes the loaded view as it was stored
ViewNewKeepState ==
    /\ pc = "start"
    /\ IF file # NoFile
       THEN LET loaded_view == load_from_file IN
            /\ stack' = <<loaded_view>>
            /\ pc' = "render"
            /\ last' = Event("new", "Ok", "", 0)
       ELSE \E a \in Answers(Titles) \ {NotAsked} :
            IF IsOk(a)
            THEN /\ stack' = <<[name |-> Val(a), notes |-> <<>>,
                                state |-> Main]>>
                 /\ pc' = "render"
                 /\ last' = Event("new", "Ok", "", 0)
            ELSE /\ stack' = stack
                 /\ pc' = "panic"
                 /\ last' = Event("new", Kind(a), "name", 0)
    /\ input' = NoInput
    /\ UNCHANGED <<file, ret, lastSave>>

\* View::new, called by main; expect() panics on an error
ViewNew ==
    /\ pc = "start"
    /\ IF file # NoFile
       THEN LET loaded_view == load_from_file IN
            /\ stack' = <<[loaded_view EXCEPT !.state = Main]>>
            /\ pc' = "render"
            /\ last' = Event("new", "Ok", "", 0)
       ELSE \E a \in Answers(Titles) \ {NotAsked} :
            IF IsOk(a)
            THEN /\ stack' = <<[name |-> Val(a), notes |-> <<>>,
                                state |-> Main]>>
                 /\ pc' = "render"
                 /\ last' = Event("new", "Ok", "", 0)
            ELSE /\ stack' = stack
                 /\ pc' = "panic"
                 /\ last' = Event("new", Kind(a), "name", 0)
    /\ input' = NoInput
    /\ UNCHANGED <<file, ret, lastSave>>

\* View::save
Save(view) == Serialize(view)

Rendering(st) == pc = "render" /\ ret = NoRet /\ Top.state[1] = st

\* a main menu that offers every screen, notes or not
MainOptionsAll(view) == {"View", "Tree", "Add", "Remove", "Exit"}

\* the options of the main menu
MainOptions(view) ==
    (IF Len(view.notes) > 0 THEN {"View", "Tree"} ELSE {})
      \cup {"Add", "Remove", "Exit"}

\* a render_main that propagates every answer that is no value
RenderMainBail ==
    /\ Rendering("Main")
    /\ \E a \in Answers(MainOptions(Top)) \ {NotAsked} :
          /\ last' = Event("main", Kind(a), IF IsOk(a) THEN "" ELSE "action", 0)
          /\ IF IsOk(a)
             THEN /\ stack' = SetTop([Top EXCEPT !.state = <<Val(a)>>])
                  /\ ret' = ret
             ELSE /\ stack' = stack
                  /\ ret' = RErr(a)
    /\ input' = NoInput
    /\ UNCHANGED <<pc, file, lastSave>>

\* View::render_main, up to the render() of the state chosen
RenderMain ==
    /\ Rendering("Main")
    /\ \E a \in Answers(MainOptions(Top)) \ {NotAsked} :
          /\ last' = Event("main", Kind(a), IF IsOk(a) THEN "" ELSE "action", 0)
          /\ IF IsOk(a)
             THEN /\ stack' = SetTop([Top EXCEPT !.state = <<Val(a)>>])
                  /\ ret' = ret
             ELSE /\ stack' = stack
                  /\ ret' = IF IsCancel(a) THEN ROk(TRUE) ELSE RErr(a)
    /\ input' = NoInput
    /\ UNCHANGED <<pc, file, lastSave>>

\* View::to_menu, up to its render()
to_menu(view) == [view EXCEPT !.state = Main]

\* View::render_add_note
RenderAdd ==
    /\ Rendering("Add")
    /\ \E s \in AddScripts :
          LET n == NoteNew(s).r IN
          /\ n[1] = "Ok" => EffCount(1) < MaxNotes
          /\ last' = Event("add", ScriptKind(s, AddFields),
                           FailedAt(s, AddFields), 0)
          /\ input' = s
          /\ IF n[1] = "Ok"
             THEN /\ stack' = SetTop(to_menu(
                         [Top EXCEPT !.notes = Append(@, n[2])]))
                  /\ ret' = ret
             ELSE IF IsCancel(n[2])
             THEN /\ stack' = SetTop(to_menu(Top))
                  /\ ret' = ret
             ELSE /\ stack' = stack
                  /\ ret' = RErr(n[2])
    /\ UNCHANGED <<pc, file, lastSave>>

\* the labels the selection prompts show
render_context(view) == [i \in 1..Len(view.notes) |-> NoteRender(view.notes[i])]

\* a position that counts from 1
PositionFromOne(labels, choice_str) ==
    CHOOSE i \in 1..Len(labels) :
        /\ labels[i] = choice_str
        /\ \A j \in 1..(i - 1) : labels[j] # choice_str

\* Iterator::position: the index (from 0) of the first label equal to the choice
Position(labels, choice_str) ==
    (CHOOSE i \in 1..Len(labels) :
        /\ labels[i] = choice_str
        /\ \A j \in 1..(i - 1) : labels[j] # choice_str) - 1

\* the answers of a Select over the labels: the user picks an entry (by its
\* place in the list, from 0) and the prompt returns the label of the entry;
\* a Select that is given no option fails with InvalidConfiguration
SelectAnswers(labels) ==
    IF Len(labels) = 0 THEN {PromptFailed}
    ELSE {Ok(i) : i \in 0..(Len(labels) - 1)} \cup PromptErrors

\* View::render_view_notes
RenderViewNotes ==
    /\ Rendering("View")
    /\ \E a \in SelectAnswers(render_context(Top)) :
          /\ last' = Event("view", Kind(a), IF IsOk(a) THEN "" ELSE "select",
                           IF IsOk(a) THEN Val(a) ELSE 0)
          /\ IF IsOk(a)
             THEN LET choice_str == render_context(Top)[Val(a) + 1]
                      index == Position(render_context(Top), choice_str)
                  IN  /\ stack' = SetTop([Top EXCEPT !.state = Update(index)])
                      /\ ret' = ret
             ELSE IF IsCancel(a)
             THEN /\ stack' = SetTop(to_menu(Top))
                  /\ ret' = ret
             ELSE /\ stack' = stack
                  /\ ret' = RErr(a)
    /\ input' = NoInput
    /\ UNCHANGED <<pc, file, lastSave>>

\* a removal by label (Vec::retain): every note that renders the label goes
RemoveByLabel(notes, index) ==
    SelectSeq(notes, LAMBDA n : NoteRender(n) # NoteRender(notes[index + 1]))

\* Vec::remove
Remove(notes, index) ==
    [i \in 1..(Len(notes) - 1) |->
        IF i <= index THEN notes[i] ELSE notes[i + 1]]

\* View::render_remove_note
RenderRemove ==
    /\ Rendering("Remove")
    /\ \E a \in SelectAnswers(render_context(Top)) :
          /\ last' = Event("remove", Kind(a), IF IsOk(a) THEN "" ELSE "select",
                           IF IsOk(a) THEN Val(a) ELSE 0)
          /\ IF IsOk(a)
             THEN LET choice_str == render_context(Top)[Val(a) + 1]
                      index == Position(render_context(Top), choice_str)
                  IN  /\ stack' = SetTop(to_menu(
                             [Top EXCEPT !.notes = Remove(@, index)]))
                      /\ ret' = ret
             ELSE IF IsCancel(a)
             THEN /\ stack' = SetTop(to_menu(Top))
                  /\ ret' = ret
             ELSE /\ stack' = stack
                  /\ ret' = RErr(a)
    /\ input' = NoInput
    /\ UNCHANGED <<pc, file, lastSave>>

\* a render_update_note that treats every error as a cancellation
RenderUpdateFinishSwallow(view, index, r) ==
    IF r[1] = "Ok"
    THEN [view |-> to_menu([view EXCEPT !.notes[index + 1] = r[2]]),
          ret |-> NoRet]
    ELSE [view |-> to_menu(view), ret |-> NoRet]

\* a render_update_note that propagates every error, cancellations included
RenderUpdateFinishBail(view, index, r) ==
    IF r[1] = "Ok"
    THEN [view |-> to_menu([view EXCEPT !.notes[index + 1] = r[2]]),
          ret |-> NoRet]
    ELSE [view |-> view, ret |-> r]

\* a render_update_note that updates the first note of the collection
RenderUpdateFinishFirst(view, index, r) ==
    IF r[1] = "Ok"
    THEN [view |-> to_menu([view EXCEPT !.notes[1] = r[2]]),
          ret |-> NoRet]
    ELSE IF IsCancel(r[2])
    THEN [view |-> to_menu(view), ret |-> NoRet]
    ELSE [view |-> view, ret |-> r]

\* View::render_update_note after update() has returned r: the match on
\* the result and to_menu.  Gives the view and what render returns.
RenderUpdateFinish(view, index, r) ==
    IF r[1] = "Ok"
    THEN [view |-> to_menu([view EXCEPT !.notes[index + 1] = r[2]]),
          ret |-> NoRet]
    ELSE IF IsCancel(r[2])
    THEN [view |-> to_menu(view), ret |-> NoRet]
    ELSE [view |-> view, ret |-> r]

\* LongNote::update_sub_notes, up to view.render(): the transient View.
\* long.rs hands new_from_vec the notes only; the name new_from_vec asks for
\* is taken to be the title of the note the view belongs to.
SubView(note) ==
    new_from_vec(note.title,
                 IF IsSome(note.sub_notes) THEN Unwrap(note.sub_notes)
                 ELSE <<>>)

\* an update_sub_notes that stores the collection as it is, empty or not
SubNotesFinishNoNormalize(note, view, r) ==
    IF r[1] = "Err" THEN r
    ELSE ROk([note EXCEPT !.sub_notes = Some(get_notes(view))])

\* an update_sub_notes that drops the result of view.render()
SubNotesFinishIgnoreResult(note, view, r) ==
    LET new_notes == get_notes(view) IN
    IF Len(new_notes) > 0
    THEN ROk([note EXCEPT !.sub_notes = Some(new_notes)])
    ELSE ROk([note EXCEPT !.sub_notes = None])

\* LongNote::update_sub_notes after view.render() has returned r
SubNotesFinish(note, view, r) ==
    IF r[1] = "Err" THEN r
    ELSE LET new_notes == get_notes(view) IN
         IF Len(new_notes) > 0
         THEN ROk([note EXCEPT !.sub_notes = Some(new_notes)])
         ELSE ROk([note EXCEPT !.sub_notes = None])

\* View::render_update_note: Note::update on notes[index]; either the update
\* completes here or it enters the sub-note view
RenderUpdate ==
    /\ Rendering("Update")
    /\ LET index == Top.state[2] IN
       IF index >= Len(Top.notes)
       THEN /\ pc' = "panic"
            /\ last' = Event("update", "Ok", "", index)
            /\ input' = NoInput
            /\ UNCHANGED <<stack, ret>>
       ELSE LET note == Top.notes[index + 1] IN
            \E s \in UpdateScripts(note) :
               LET u == NoteUpdate(note, s).r IN
               /\ pc' = pc
               /\ input' = s
               /\ IF u = CallSubNotes
                  THEN /\ Depth < MaxDepth
                       /\ stack' = Append(stack, SubView(note))
                       /\ ret' = ret
                       /\ last' = Event("enter", "Ok", "", index)
                  ELSE LET f == RenderUpdateFinish(Top, index, u) IN
                       /\ stack' = SetTop(f.view)
                       /\ ret' = f.ret
                       /\ last' = Event("update",
                                        ScriptKind(s, UpdateFields),
                                        FailedAt(s, UpdateFields), index)
    /\ UNCHANGED <<file, lastSave>>

\* the return of a sub-view's render into LongNote::update_sub_notes and
\* from there into the View::render_update_note of the parent view
SubNotesReturn ==
    /\ pc = "render"
    /\ ret # NoRet
    /\ Depth > 1
    /\ LET parent == stack[Depth - 1]
           index == parent.state[2]
           u == SubNotesFinish(parent.notes[index + 1], Top, ret)
           f == RenderUpdateFinish(parent, index, u)
       IN  /\ stack' = [SubSeq(stack, 1, Depth - 1) EXCEPT ![Depth - 1] = f.view]
           /\ ret' = f.ret
           /\ last' = Event("leave",
                            IF ret[1] = "Ok" THEN "Ok" ELSE Kind(ret[2]),
                            "", index)
    /\ input' = NoInput
    /\ UNCHANGED <<pc, file, lastSave>>

\* View::render_tree: print_tree can fail to write
RenderTree ==
    /\ Rendering("Tree")
    /\ \E printed \in BOOLEAN :
          /\ last' = Event("tree", IF printed THEN "Ok" ELSE "Io", "", 0)
          /\ IF printed
             THEN /\ stack' = SetTop(to_menu(Top))
                  /\ ret' = ret
             ELSE /\ stack' = stack
                  /\ ret' = RErr(IoError)
    /\ input' = NoInput
    /\ UNCHANGED <<pc, file, lastSave>>

\* View::render in state Exit: save, then return
RenderExit ==
    /\ Rendering("Exit")
    /\ \E written \in BOOLEAN :
          /\ last' = Event("exit", IF written THEN "Ok" ELSE "Io", "", 0)
          /\ IF written
             THEN /\ file' = Save(Top)
                  /\ lastSave' = Depth
                  /\ ret' = ROk(TRUE)
             ELSE /\ UNCHANGED <<file, lastSave>>
                  /\ ret' = RErr(IoError)
    /\ input' = NoInput
    /\ UNCHANGED <<pc, stack>>

(***************************************************************************)
(* main.rs                                                                 *)
(***************************************************************************)
\* main after view.render() has returned: report the error, save, stop
MainFinish ==
    /\ pc = "render"
    /\ ret # NoRet
    /\ Depth = 1
    /\ \E written \in BOOLEAN :
          /\ last' = Event("main_save", IF written THEN "Ok" ELSE "Io", "", 0)
          /\ IF written
             THEN /\ file' = Save(Root)
                  /\ lastSave' = 1
                  /\ pc' = "done"
             ELSE /\ UNCHANGED <<file, lastSave>>
                  /\ pc' = "panic"
    /\ input' = NoInput
    /\ UNCHANGED <<stack, ret>>

Next ==
    \/ ViewNew
    \/ RenderMain
    \/ RenderAdd
    \/ RenderViewNotes
    \/ RenderRemove
    \/ RenderUpdate
    \/ SubNotesReturn
    \/ RenderTree
    \/ RenderExit
    \/ MainFinish

Spec == Init /\ [][Next]_vars

TypeOK ==
    /\ pc \in {"start", "render", "done", "panic"}
    /\ lastSave \in 0..MaxDepth
    /\ Depth <= MaxDepth
    /\ Depth = 0 \/ EffCount(1) <= MaxNotes

(***************************************************************************)
(* Properties.  last' tells, in an action formula, which handler the step  *)
(* ran and how the user answered its prompts.                              *)
(***************************************************************************)
CancelKinds == {"Canceled", "Interrupted"}

AddCompleted == last.op = "add" /\ last.kind = "Ok"

RemoveSelected == last.op = "remove" /\ last.kind = "Ok"

\* C1: every step changes the length of a view's collection by +1 when it is
\* an Add screen of that view that completed the creation, by -1 when it is a
\* Remove screen of that view in which a note was selected, and by 0 in every
\* other case (cancelled Add or Remove, View, Update, Tree, sub-note sessions
\* of the view); so the length is the adds completed minus the removes
\* completed, counted from the length the view started with.
C1_LengthCountsAddsAndRemoves ==
    [][\A k \in 1..Depth :
          k <= Len(stack') =>
             Len(stack'[k].notes) =
                Len(stack[k].notes)
                  + (IF k = Depth /\ Len(stack') = Depth /\ AddCompleted' THEN 1
                     ELSE IF k = Depth /\ Len(stack') = Depth /\ RemoveSelected'
                          THEN -1
                     ELSE 0)]_vars

\* a fresh run in which two notes were added and one of them removed
C1_Witness ==
    /\ pc = "render"
    /\ file = NoFile
    /\ Depth = 1
    /\ RemoveSelected
    /\ Len(Root.notes) = 1

\* C2: an Add screen in which the user cancels or interrupts a prompt of the
\* note creation appends nothing: the collection is what it was, the state
\* of the view is Main and render goes on.
C2_CancelledAddChangesNothing ==
    [][(Rendering("Add") /\ last'.op = "add" /\ last'.kind \in CancelKinds)
          => /\ stack' = SetTop([Top EXCEPT !.state = Main])
             /\ ret' = NoRet]_vars

\* the date picker of a long note was cancelled, after title, description
\* and the confirmation were answered, in a view that holds a note
C2_Witness ==
    /\ pc = "render"
    /\ last.op = "add"
    /\ last.kind = "Canceled"
    /\ last.at = "due_at"
    /\ Top.state = Main
    /\ Len(Top.notes) = 1

RECURSIVE NoEmptySome(_)
\* no LongNote of the collection, at any depth, holds Some(empty sequence)
NoEmptySome(notes) ==
    \A i \in 1..Len(notes) :
        notes[i].tag = "Long" =>
            /\ notes[i].sub_notes # Some(<<>>)
            /\ IsSome(notes[i].sub_notes) =>
                  NoEmptySome(Unwrap(notes[i].sub_notes))

\* C3: in every reachable state every LongNote of every view has sub_notes =
\* None exactly when it has no sub-notes: Some(empty sequence) is never stored.
C3_SubNotesNoneIffEmpty ==
    \A k \in 1..Depth : NoEmptySome(stack[k].notes)

\* a sub-note session has returned to the root view and left its note
\* without sub-notes, after an earlier session had exited with a sub-note
C3_Witness ==
    /\ pc = "render"
    /\ Depth = 1
    /\ last.op = "leave"
    /\ last.kind = "Ok"
    /\ lastSave = 2
    /\ Len(Deserialize(file).notes) = 1
    /\ Root.notes[last.sel + 1].sub_notes = None

\* C4: once the file has been written, it holds the collection of the root
\* view.
C4_OnlyRootPersisted ==
    lastSave # 0 => Deserialize(file).notes = Root.notes

\* C5: a prompt that fails makes render return the failure; every enclosing
\* render_update_note then returns it unchanged, leaving its view as it is
\* and asking nothing, and main saves the root view and stops.
C5_FailurePropagates ==
    /\ []((pc = "render" /\ last.kind = "Failed") => ret = RErr(PromptFailed))
    /\ [][(pc = "render" /\ ret = RErr(PromptFailed))
            => IF Depth > 1
               THEN /\ stack' = SubSeq(stack, 1, Depth - 1)
                    /\ ret' = ret
                    /\ pc' = pc
                    /\ last'.op = "leave"
               ELSE /\ stack' = stack
                    /\ pc' \in {"done", "panic"}
                    /\ last'.op = "main_save"
                    /\ pc' = "done" => file' = Save(Root)]_vars

\* the failure of a prompt of a view at depth 3 has been returned through
\* the view at depth 2, whose state is still Update
C5_Witness ==
    /\ pc = "render"
    /\ Depth = 2
    /\ last.op = "leave"
    /\ last.kind = "Failed"
    /\ ret = RErr(PromptFailed)
    /\ Top.state[1] = "Update"
    /\ Root.state[1] = "Update"

\* C6: an Update screen whose update completed or was cancelled or
\* interrupted at one of its prompts, and an Update screen whose sub-note
\* session returned without an error, leave the view in state Main with
\* render going on; render never returns a cancellation as an error.
C6_UpdateReturnsToMain ==
    /\ [](ret[1] = "Err" => ret[2][1] \notin CancelKinds)
    /\ [][/\ (Rendering("Update") /\ last'.op = "update"
                /\ last'.kind \in CancelKinds \cup {"Ok"})
             => /\ Len(stack') = Depth
                /\ stack'[Depth].state = Main
                /\ ret' = NoRet
          /\ (pc = "render" /\ Depth > 1 /\ ret = ROk(TRUE))
             => /\ Len(stack') = Depth - 1
                /\ stack'[Depth - 1].state = Main
                /\ ret' = NoRet]_vars

\* the date picker of a change of the due date was interrupted
C6_Witness ==
    /\ pc = "render"
    /\ last.op = "update"
    /\ last.kind = "Interrupted"
    /\ last.at = "due_at"
    /\ Top.state = Main
    /\ ret = NoRet

\* C7: a Main prompt that is cancelled or interrupted makes render return
\* success with the view unchanged (state Main, same collection); when the
\* render of the root view has returned, main saves the root view and stops,
\* and nothing runs after that.
C7_CancelAtMain ==
    [][/\ (Rendering("Main") /\ last'.op = "main" /\ last'.kind \in CancelKinds)
          => /\ ret' = ROk(TRUE)
             /\ stack' = stack
             /\ Top.state = Main
       /\ (pc = "render" /\ Depth = 1 /\ ret # NoRet)
          => /\ stack' = stack
             /\ last'.op = "main_save"
             /\ pc' \in {"done", "panic"}
             /\ pc' = "done" => file' = Save(Root)
       /\ pc \notin {"done", "panic"}]_vars

\* the Main prompt of a root view that holds notes was interrupted and the
\* program has saved and stopped
C7_Witness ==
    /\ pc = "done"
    /\ ret = ROk(TRUE)
    /\ Root.state = Main
    /\ Len(Root.notes) = 2
    /\ file = Save(Root)

\* C8: the index of every view in state Update(index) is a position of the
\* view's collection, and the update never panics on a missing note.
C8_UpdateIndexValid ==
    /\ \A k \in 1..Depth :
          stack[k].state[1] = "Update" =>
             /\ stack[k].state[2] >= 0
             /\ stack[k].state[2] < Len(stack[k].notes)
    /\ ~(pc = "panic" /\ last.op = "update")

\* a sub-view is in state Update for its note, below a root view that is in
\* state Update for the note the sub-view belongs to
C8_Witness ==
    /\ pc = "render"
    /\ Depth = 2
    /\ Root.state = Update(0)
    /\ Top.state = Update(0)
    /\ Len(Top.notes) = 1

\* C9: a Remove screen in which the user selects an entry deletes the note
\* at the place selected and keeps the others in order; the view is in Main.
C9_RemoveDeletesSelected ==
    [][(Rendering("Remove") /\ last'.op = "remove" /\ last'.kind = "Ok")
          => stack' = SetTop([Top EXCEPT !.notes = Remove(@, last'.sel),
                                         !.state = Main])]_vars

\* C10: when a sub-note session returns without an error, the note of the
\* parent view holds the final collection of the sub-view (None when it is
\* empty); and the file main writes at the end holds the root collection.
C10_SubNotesWrittenBack ==
    /\ [](pc = "done" => Deserialize(file).notes = Root.notes)
    /\ [][(pc = "render" /\ Depth > 1 /\ ret = ROk(TRUE))
            => LET index == stack[Depth - 1].state[2] IN
               stack'[Depth - 1].notes[index + 1].sub_notes =
                  IF Len(Top.notes) = 0 THEN None ELSE Some(Top.notes)]_vars

\* the program has stopped with a file in which the only note of the root
\* holds a long note as its sub-note: a note added in a sub-view
C10_Witness ==
    /\ pc = "done"
    /\ Len(Root.notes) = 1
    /\ Root.notes[1].tag = "Long"
    /\ IsSome(Root.notes[1].sub_notes)
    /\ Unwrap(Root.notes[1].sub_notes)[1].tag = "Long"
    /\ Deserialize(file).notes = Root.notes

\* C11: an Update screen in which a prompt of the update (the choice of the
\* operation, the new title, the confirmation or the date picker of the due
\* date, the new state, the description editor) is not answered with a value
\* leaves every note of the view as it was: a note changes only in a step
\* in which every prompt asked was answered.
C11_CancelledUpdateChangesNothing ==
    [][(Rendering("Update") /\ last'.op = "update"
          /\ \E f \in UpdateFields : input'[f] \in PromptErrors)
          => /\ Len(stack') = Depth
             /\ stack'[Depth].notes = Top.notes
             /\ \A k \in 1..(Depth - 1) : stack'[k] = stack[k]]_vars

\* the date picker of a change of the due date was cancelled, after the
\* confirmation was answered with yes, on a note that has a due date
C11_Witness ==
    /\ pc = "render"
    /\ last.op = "update"
    /\ input.choice = Ok("Due")
    /\ input.with_due = Ok(TRUE)
    /\ input.due_at = OperationCanceled
    /\ Top.state = Main
    /\ IsSome(Top.notes[last.sel + 1].due_at)

\* C12: after a step in which the user cancelled or interrupted a prompt
\* (the name prompt of View::new included) the program has not stopped
\* abnormally and no error is returned: a view exists, it is in state Main
\* and render goes on or has returned success.
C12_CancelIsNoError ==
    last.kind \in CancelKinds
       => /\ pc = "render"
          /\ Depth >= 1
          /\ Top.state = Main
          /\ ret[1] # "Err"

\* C13: every view starts its render in state Main: the view View::new
\* gives main, whether it was loaded from the file (whatever state the file
\* holds) or created, and the view update_sub_notes constructs.
C13_ViewsStartInMain ==
    [][/\ (pc = "start" /\ pc' = "render")
          => /\ Len(stack') = 1
             /\ stack'[1].state = Main
       /\ Len(stack') = Depth + 1
          => stack'[Depth + 1].state = Main]_vars

\* a view loaded from a file that holds the state Update(0) is in its render
\* loop, and so is a sub-note view constructed for a note of it
C13_Witness ==
    /\ pc = "render"
    /\ Depth = 2
    /\ file # NoFile
    /\ Deserialize(file).state = Update(0)
    /\ lastSave = 0
    /\ Top.state = Main
    /\ last.op = "enter"

\* C14: the file a root view wrote loads (View::new) to a view with the name
\* and the collection of the root view and with state Main, and saving the
\* loaded view stores the name and the collection the file holds; a view
\* loaded at the start and saved at once stores what the file held, the
\* state aside.
C14_SaveLoadRoundTrip ==
    /\ [](lastSave = 1
            => LET loaded_view == [load_from_file EXCEPT !.state = Main] IN
               /\ loaded_view = [Root EXCEPT !.state = Main]
               /\ Save(loaded_view)[2].name = file[2].name
               /\ Save(loaded_view)[2].notes = file[2].notes)
    /\ [][(pc = "start" /\ pc' = "render" /\ file # NoFile)
            => Save([stack'[1] EXCEPT !.state = load_from_file.state]) = file]_vars

\* the program has stopped and saved a root view that holds a long note with
\* a description, a due date and a short sub-note that has a due date
C14_Witness ==
    /\ pc = "done"
    /\ lastSave = 1
    /\ Len(Root.notes) = 1
    /\ Root.notes[1].tag = "Long"
    /\ IsSome(Root.notes[1].description)
    /\ IsSome(Root.notes[1].due_at)
    /\ IsSome(Root.notes[1].sub_notes)
    /\ Unwrap(Root.notes[1].sub_notes)[1].tag = "Short"
    /\ IsSome(Unwrap(Root.notes[1].sub_notes)[1].due_at)
    /\ file = Save(Root)

\* what a screen leaves when one of its prompts is cancelled or interrupted;
\* it depends on the screen and on the state before, not on the signal
CancelOutcome(op) ==
    CASE op = "new" -> [pc |-> "panic", stack |-> stack, ret |-> ret]
      [] op = "main" -> [pc |-> pc, stack |-> stack, ret |-> ROk(TRUE)]
      [] op \in {"add", "view", "remove", "update"} ->
            [pc |-> pc, stack |-> SetTop([Top EXCEPT !.state = Main]),
             ret |-> NoRet]

\* C15: a step in which a prompt is answered with one of the two
\* cancellation signals has the same outcome for either signal: the views
\* (states and collections), the result of render, the position of main and
\* the file after the step are given by the screen and the state before it.
C15_CancelAndInterruptAlike ==
    [][last'.kind \in CancelKinds
          => /\ [pc |-> pc', stack |-> stack', ret |-> ret'] =
                   CancelOutcome(last'.op)
             /\ file' = file
             /\ lastSave' = lastSave]_vars

\* the selection of the Remove screen of a sub-note view that holds a note
\* was interrupted
C15_Witness ==
    /\ pc = "render"
    /\ Depth = 2
    /\ last.op = "remove"
    /\ last.kind = "Interrupted"
    /\ Top.state = Main
    /\ Len(Top.notes) = 1
    /\ ret = NoRet

\* C16: an Update screen of a LongNote in which the user chooses "change
\* description" and the editor returns a text stores None as the description
\* of the note when the text is empty and Some(text) when it is not; nothing
\* else of the view changes and the view is in Main.
C16_DescriptionEditNormalises ==
    [][(Rendering("Update") /\ last'.op = "update"
          /\ input'.choice = Ok("Description") /\ IsOk(input'.description))
          => LET text == Val(input'.description)
                 index == Top.state[2]
             IN  /\ stack' = SetTop(
                       [Top EXCEPT !.state = Main,
                                   !.notes[index + 1].description =
                                       IF Len(text) = 0 THEN None
                                       ELSE Some(text)])
                 /\ stack'[Depth].notes[index + 1].description # Some(<<>>)]_vars

\* the editor of a change of the description returned the empty text and
\* the note is without a description
C16_Witness ==
    /\ pc = "render"
    /\ last.op = "update"
    /\ last.kind = "Ok"
    /\ input.choice = Ok("Description")
    /\ input.description = Ok(<<>>)
    /\ Top.state = Main
    /\ Top.notes[last.sel + 1].description = None

\* C17: a View screen in which the user selects an entry puts the view in
\* state Update(i) for the place i of the entry selected and leaves the
\* collection as it is; a View screen that is cancelled or interrupted puts
\* the view in state Main with the collection as it is.
C17_ViewSelectsChosenNote ==
    [][(Rendering("View") /\ last'.op = "view")
          => /\ last'.kind = "Ok"
                => stack' = SetTop([Top EXCEPT !.state = Update(last'.sel)])
             /\ last'.kind \in CancelKinds
                => stack' = SetTop([Top EXCEPT !.state = Main])]_vars

\* C18: no view, at any depth, is in state View, Tree or Update(i) while
\* its collection is empty.
C18_NoViewScreenOnEmpty ==
    \A k \in 1..Depth :
        stack[k].state[1] \in {"View", "Tree", "Update"}
           => Len(stack[k].notes) > 0

\* a sub-note view whose last note was removed shows its main menu again,
\* below a root view that was created in this run
C18_Witness ==
    /\ pc = "render"
    /\ Depth = 2
    /\ file = NoFile
    /\ last.op = "remove"
    /\ last.kind = "Ok"
    /\ Top.state = Main
    /\ Len(Top.notes) = 0
    /\ MainOptions(Top) = {"Add", "Remove", "Exit"}

\* C19: a view whose sub-note session is running (a view below the top of
\* the stack) is not changed by a step of the session; the step in which
\* the session returns leaves the name, the length and the order of its
\* collection, every note other than notes[i], and every field of notes[i]
\* other than sub_notes as they were.
C19_SubSessionFrame ==
    [][\A k \in 1..(Depth - 1) :
          /\ Len(stack') >= k
          /\ Len(stack') > k => stack'[k] = stack[k]
          /\ Len(stack') = k
             => LET i == stack[k].state[2]
                    old == stack[k].notes
                    new == stack'[k].notes
                IN  /\ stack'[k].name = stack[k].name
                    /\ Len(new) = Len(old)
                    /\ \A j \in 1..Len(old) : j # i + 1 => new[j] = old[j]
                    /\ [new[i + 1] EXCEPT !.sub_notes = old[i + 1].sub_notes]
                          = old[i + 1]]_vars

\* a sub-note session of the note of a loaded root view has returned after
\* the sub-note the file holds was removed in it; the note is otherwise as
\* the file holds it and nothing was saved since
C19_Witness ==
    /\ pc = "render"
    /\ Depth = 1
    /\ file # NoFile
    /\ lastSave = 0
    /\ last.op = "leave"
    /\ last.kind = "Ok"
    /\ Root.state = Main
    /\ Root.notes = <<[SampleLong EXCEPT !.sub_notes = None]>>

\* C20: every view that is in a note-selection screen (View or Remove), at
\* any depth, has at least one label to show, and a render never returns
\* the failure of a Remove screen.
C20_SelectionNeverEmpty ==
    /\ \A k \in 1..Depth :
          stack[k].state[1] \in {"View", "Remove"}
             => Len(render_context(stack[k])) > 0
    /\ ~(last.op = "remove" /\ last.kind = "Failed" /\ Len(Top.notes) = 0)

\* C21: a sub-note view starts from the sub_notes of its note L and leaves
\* the view of L as it is; when its render returns an error that is no
\* cancellation (a failed prompt, a failed write), the view of L is popped
\* back as it was, so L.sub_notes is what it was when the session was
\* entered, and the error goes on to the caller; the file main then writes
\* holds the collection of the root view, which the session did not change.
C21_FailedSessionWritesNothing ==
    [][/\ (Depth >= 1 /\ Len(stack') = Depth + 1)
          => LET L == Top.notes[Top.state[2] + 1] IN
             /\ SubSeq(stack', 1, Depth) = stack
             /\ stack'[Depth + 1].notes =
                   IF IsSome(L.sub_notes) THEN Unwrap(L.sub_notes) ELSE <<>>
       /\ (pc = "render" /\ ret[1] = "Err")
          => IF Depth > 1
             THEN /\ stack' = SubSeq(stack, 1, Depth - 1)
                  /\ ret' = ret
                  /\ pc' = pc
             ELSE /\ stack' = stack
                  /\ pc' = "done" => Deserialize(file').notes = Root.notes]_vars

\* a session of the note the file holds has ended with a failed prompt,
\* after a long note was added in it whose own session was left with Exit;
\* the root view holds the note as the file held it at the start
C21_Witness ==
    /\ pc = "render"
    /\ Depth = 1
    /\ last.op = "leave"
    /\ last.kind = "Failed"
    /\ ret = RErr(PromptFailed)
    /\ lastSave = 3
    /\ Root.notes = <<SampleLong>>
    /\ Root.state[1] = "Update"

====
